---- MODULE Spec2Model ----
(***************************************************************************)
(* Model of transit_utils/transit_utils.py: the signal-conditioning        *)
(* routines median_boxcar_filter, bindata and flag_outliers, and the       *)
(* selector handling of transit_duration and fit_eclipse_bottom.           *)
(*                                                                         *)
(* Every routine is a pure function of its arguments.  A behaviour is one  *)
(* call: Init draws the arguments of one call, the action of the called    *)
(* routine computes what the Python code computes and stores the outcome   *)
(* in ret, either a normal return (status "ok") or a raised exception      *)
(* (status "raise").                                                       *)
(*                                                                         *)
(* Numbers.  Samples are integers on a fixed grid.  A float that the code  *)
(* computes by division is kept as an exact fraction [num, den]; den = 0   *)
(* is what IEEE arithmetic gives for a division by zero: 0/0 is NaN and    *)
(* x/0 with x # 0 is infinite.  The error estimates of bindata are         *)
(* non-negative square roots and are kept as the fraction of their square. *)
(* Candidate bin centres are kept doubled, so that min + binsize/2 stays   *)
(* an integer.                                                             *)
(***************************************************************************)
EXTENDS Integers, Sequences, FiniteSets, TLC

VARIABLES pc, args, ret

vars == <<pc, args, ret>>

(***************************************************************************)
(* Bounds of the model.                                                    *)
(***************************************************************************)
MaxLenFilter == 5
MaxWindow == 5
MaxLenBin == 3
MaxTime == 3
MaxBinsize == 2
MaxLenFlag == 10
MaxLenFlagShort == 5
MaxGroup == 6
MaxLenEclipse == 3

(***************************************************************************)
(* Generic helpers: sequences, Python slices, order statistics.            *)
(***************************************************************************)
SeqsUpTo(S, lo, hi) == UNION {[1..n -> S] : n \in lo..hi}

Abs(x) == IF x < 0 THEN -x ELSE x

RECURSIVE Sum(_)
Sum(s) == IF s = <<>> THEN 0 ELSE s[1] + Sum(Tail(s))

\* np.flip(a, 0)
Flip(s) == [i \in 1..Len(s) |-> s[Len(s) + 1 - i]]

\* Python's normalisation of a slice bound against a length n
SliceBound(i, n) ==
    IF i < 0 THEN (IF i + n < 0 THEN 0 ELSE i + n)
    ELSE (IF i > n THEN n ELSE i)

\* a[lo:hi] for a 0-based Python sequence held in a 1-based TLA+ sequence
PySlice(s, lo, hi) ==
    LET n == Len(s)
        l == SliceBound(lo, n)
        h == SliceBound(hi, n)
    IN  IF h > l THEN [i \in 1..(h - l) |-> s[l + i]] ELSE <<>>

\* the k-th smallest element (k in 1..Len(s)) of a non-empty sequence
KthSmallest(s, k) ==
    CHOOSE v \in {s[i] : i \in 1..Len(s)} :
        /\ Cardinality({i \in 1..Len(s) : s[i] < v}) < k
        /\ Cardinality({i \in 1..Len(s) : s[i] <= v}) >= k

\* twice the median of a non-empty sequence: the sum of its two middle
\* order statistics (the same element twice when the length is odd)
Median2(s) ==
    KthSmallest(s, (Len(s) + 1) \div 2) + KthSmallest(s, (Len(s) \div 2) + 1)

\* the median of a sequence of odd length
MedianOdd(s) == KthSmallest(s, (Len(s) + 1) \div 2)

(***************************************************************************)
(* Outcomes of a call.                                                     *)
(***************************************************************************)
NoRet == [status |-> "none"]
Ok(v) == [status |-> "ok", value |-> v]
Raise(e) == [status |-> "raise", error |-> e]

(***************************************************************************)
(* median_boxcar_filter                                                    *)
(***************************************************************************)
\* scipy.signal.medfilt(x, k) for odd k: the median of the k samples
\* centred on each position, the array being zero-padded at its two ends
medfilt(x, k) ==
    LET h == k \div 2
        At(j) == IF j >= 1 /\ j <= Len(x) THEN x[j] ELSE 0
    IN  [j \in 1..Len(x) |-> MedianOdd([m \in 1..k |-> At(j - h + m - 1)])]

\* the slice appended after data
TrailingPad(data, window_length) ==
    LET last_index == Len(data) - 1
    IN  PySlice(data, last_index - window_length, last_index)

\* the extended array handed to medfilt
FilterArray(data, window_length) ==
    Flip(PySlice(data, 0, window_length)) \o data
        \o TrailingPad(data, window_length)

\* window_length after "if(window_length % 2 == 0): window_length += 1"
OddWindow(window_length) ==
    IF window_length % 2 = 0 THEN window_length + 1 ELSE window_length

\* the slice with its upper bound one short
CentralSlice_short(filt, window_length, last_index) ==
    PySlice(filt, window_length, window_length + last_index)

\* filt[window_length:window_length + last_index + 1]
CentralSlice(filt, window_length, last_index) ==
    PySlice(filt, window_length, window_length + last_index + 1)

median_boxcar_filter(data, window_length, endpoints) ==
    IF endpoints = "reflect"
    THEN LET last_index == Len(data) - 1
             filter_array == FilterArray(data, window_length)
             wl == OddWindow(window_length)
             filt == medfilt(filter_array, wl)
         IN  Ok(CentralSlice(filt, wl, last_index))
    ELSE Raise("UnboundLocalError")

FilterValues == 0..2
FilterArgs ==
    [fn : {"median_boxcar_filter"},
     data : SeqsUpTo(FilterValues, 1, MaxLenFilter),
     window_length : 1..MaxWindow,
     endpoints : {"reflect", "wrap"}]

InitFilter == /\ pc = "call"
              /\ args \in FilterArgs
              /\ ret = NoRet

CallFilter ==
    /\ pc = "call"
    /\ args.fn = "median_boxcar_filter"
    /\ ret' = median_boxcar_filter(args.data, args.window_length,
                                   args.endpoints)
    /\ pc' = "done"
    /\ UNCHANGED args

SpecFilter == InitFilter /\ [][CallFilter]_vars

\* C5: with endpoints = 'reflect' and 1 <= window_length < len(data), odd or
\* even, median_boxcar_filter returns a sequence exactly as long as data.
FilterPreservesLength ==
    (/\ pc = "done"
     /\ args.fn = "median_boxcar_filter"
     /\ args.endpoints = "reflect"
     /\ args.window_length >= 1
     /\ args.window_length < Len(args.data))
    => /\ ret.status = "ok"
       /\ Len(ret.value) = Len(args.data)

\* an even window shorter than the data has been filtered
FilterEvenWindowDone ==
    /\ pc = "done"
    /\ args.fn = "median_boxcar_filter"
    /\ args.endpoints = "reflect"
    /\ args.window_length = 4
    /\ Len(args.data) = 5
    /\ ret.status = "ok"
    /\ Len(ret.value) = 5

\* C9: with h the half width of the window made odd, every interior output
\* element (index i, 0-based, h <= i <= len(data) - 1 - h) is the median of
\* data[i-h .. i+h].
FilterInteriorAligned ==
    (/\ pc = "done"
     /\ args.fn = "median_boxcar_filter"
     /\ args.endpoints = "reflect"
     /\ args.window_length >= 1
     /\ args.window_length < Len(args.data))
    => LET h == (OddWindow(args.window_length) - 1) \div 2
           n == Len(args.data)
       IN  /\ ret.status = "ok"
           /\ \A i \in h..(n - 1 - h) :
                /\ i + 1 <= Len(ret.value)
                /\ ret.value[i + 1] =
                       MedianOdd(PySlice(args.data, i - h, i + h + 1))

\* C10: the extended array is the first window_length samples reversed, then
\* data, then the last window_length samples reversed.
FilterReflectsBothEnds ==
    (/\ pc = "done"
     /\ args.fn = "median_boxcar_filter"
     /\ args.endpoints = "reflect"
     /\ args.window_length >= 1
     /\ args.window_length < Len(args.data))
    => LET n == Len(args.data)
           w == args.window_length
       IN  FilterArray(args.data, w) =
               Flip(PySlice(args.data, 0, w)) \o args.data
                   \o Flip(PySlice(args.data, n - w, n))

(***************************************************************************)
(* flag_outliers                                                           *)
(***************************************************************************)
\* statsmodels' mad divides the median absolute deviation by
\* c = Gaussian.ppf(3/4) = 0.6745 = 1349/2000 (the factor 1.4826 of the
\* docstrings is 1/c)
MadCNum == 1349
MadCDen == 2000

\* the column count written into every reshape(-1, 5)
ReshapeCols == 5

Zeros(n) == [i \in 1..n |-> 0]

\* row r (0-based) of s.reshape(-1, cols)
Row(s, cols, r) == [j \in 1..cols |-> s[r * cols + j]]

\* abs((x - med)/std) for one element of a row, as a fraction: med is the
\* row's median and std = mad(row) its scaled median absolute deviation.
\* Medians are kept doubled: dev2 = 2|x - med|, mad4 = 4 median|x - med|.
NumStd(row, j) ==
    LET med2 == Median2(row)
        dev2 == [m \in 1..Len(row) |-> Abs(2 * row[m] - med2)]
        mad4 == Median2(dev2)
    IN  [num |-> 2 * dev2[j] * MadCNum, den |-> mad4 * MadCDen]

\* IEEE "f < t" for a fraction f >= 0 or NaN/infinite (den = 0): false for
\* NaN and for +infinity
FracLess(f, t) == f.den # 0 /\ f.num < t * f.den

\* num_std < num_std_desired over the rows of copy_data.reshape(-1, cols),
\* flattened
RowMask(copy_data, cols, num_std_desired) ==
    [k \in 1..Len(copy_data) |->
        FracLess(NumStd(Row(copy_data, cols, (k - 1) \div cols),
                        ((k - 1) % cols) + 1),
                 num_std_desired)]

\* the padded copy
CopyData(data, outlier_group) ==
    data \o Zeros(outlier_group - (Len(data) % outlier_group))

flag_outliers(data, outlier_group, num_std_desired) ==
    LET copy_data == CopyData(data, outlier_group)
    IN  IF Len(copy_data) % ReshapeCols # 0
        THEN Raise("ValueError")   \* reshape(-1, 5) of a size not 5 x N
        ELSE IF outlier_group # ReshapeCols /\ outlier_group # 1
        THEN Raise("ValueError")   \* (N, 5) - (N, outlier_group) broadcast
        ELSE Ok(PySlice(RowMask(copy_data, ReshapeCols, num_std_desired),
                        0, Len(data)))

FlagArgs ==
    [fn : {"flag_outliers"},
     data : SeqsUpTo({1, 100}, 1, MaxLenFlag)
                \cup SeqsUpTo({0, 1, 3, 100}, 1, MaxLenFlagShort),
     outlier_group : 1..MaxGroup,
     num_std_desired : {2, 10}]

InitFlag == /\ pc = "call"
            /\ args \in FlagArgs
            /\ ret = NoRet

CallFlag ==
    /\ pc = "call"
    /\ args.fn = "flag_outliers"
    /\ ret' = flag_outliers(args.data, args.outlier_group,
                            args.num_std_desired)
    /\ pc' = "done"
    /\ UNCHANGED args

SpecFlag == InitFlag /\ [][CallFlag]_vars

\* C1: on [1,1,1,1,1,100,1,1,1,1] with outlier_group = 5 and
\* num_std_desired = 10 the mask is false at index 5 and true elsewhere; in
\* general an element is marked false exactly when |element - block median|
\* / block dispersion >= threshold and is retained otherwise.
FlagMarksOnlyOutliers ==
    (/\ pc = "done"
     /\ args.fn = "flag_outliers"
     /\ args.outlier_group = 5)
    => /\ ret.status = "ok"
       /\ args.data = <<1, 1, 1, 1, 1, 100, 1, 1, 1, 1>>
              /\ args.num_std_desired = 10
          => ret.value = <<TRUE, TRUE, TRUE, TRUE, TRUE, FALSE,
                           TRUE, TRUE, TRUE, TRUE>>
       /\ \A k \in 1..Len(args.data) :
            LET copy_data == CopyData(args.data, 5)
                f == NumStd(Row(copy_data, 5, (k - 1) \div 5),
                            ((k - 1) % 5) + 1)
                atLeast == \/ f.den # 0
                              /\ f.num >= args.num_std_desired * f.den
                           \/ f.den = 0 /\ f.num > 0
            IN  ret.value[k] = ~atLeast

\* C2: for every non-empty data, every outlier_group >= 1 and every
\* threshold, flag_outliers returns a mask of length len(data) computed over
\* blocks of outlier_group elements of the zero-padded copy.
FlagAnyGroupSize ==
    (/\ pc = "done"
     /\ args.fn = "flag_outliers")
    => /\ ret.status = "ok"
       /\ Len(ret.value) = Len(args.data)
       /\ ret.value =
              PySlice(RowMask(CopyData(args.data, args.outlier_group),
                              args.outlier_group, args.num_std_desired),
                      0, Len(args.data))
(***************************************************************************)
(* bindata                                                                 *)
(***************************************************************************)
NaN == [num |-> 0, den |-> 0]
Num(v) == [num |-> v, den |-> 1]
IsNaN(f) == f.den = 0 /\ f.num = 0
One == Num(1)

RECURSIVE SeqMin(_)
SeqMin(s) == IF Len(s) = 1 THEN s[1]
             ELSE LET m == SeqMin(Tail(s)) IN IF s[1] < m THEN s[1] ELSE m

RECURSIVE SeqMax(_)
SeqMax(s) == IF Len(s) = 1 THEN s[1]
             ELSE LET m == SeqMax(Tail(s)) IN IF s[1] > m THEN s[1] ELSE m

\* the upper limit with the half bin added instead of subtracted
CandidateStop2_plus(time, binsize) == 2 * SeqMax(time) + binsize

\* twice np.min(time) + 0.5*binsize and twice np.max(time) - 0.5*binsize
CandidateStart2(time, binsize) == 2 * SeqMin(time) + binsize
CandidateStop2(time, binsize) == 2 * SeqMax(time) - binsize

\* np.arange(start, stop, step), all three doubled
Arange2(start2, stop2, step2) ==
    LET count == IF stop2 > start2
                 THEN (stop2 - start2 + step2 - 1) \div step2 ELSE 0
    IN  [i \in 1..count |-> start2 + (i - 1) * step2]

\* times_to_try, doubled
TimesToTry2(time, binsize) ==
    Arange2(CandidateStart2(time, binsize), CandidateStop2(time, binsize),
            2 * binsize)

\* np.abs(times_to_try[i] - time) <= binsize for sample k
InWindow(c2, time, binsize, k) == Abs(c2 - 2 * time[k]) <= 2 * binsize

\* ind = np.argwhere(...): the selected sample positions, in order
WindowInd(c2, time, binsize) ==
    SelectSeq([k \in 1..Len(time) |-> k],
              LAMBDA k : InWindow(c2, time, binsize, k))

\* the selected samples with the NaN entries left in
CurData_keepnan(data, ind) == [j \in 1..Len(ind) |-> data[ind[j]].num]

\* data[ind[~np.isnan(data[ind])]]: the selected samples that are not NaN
CurData(data, ind) ==
    LET keep == SelectSeq(ind, LAMBDA k : ~IsNaN(data[k]))
    IN  [j \in 1..Len(keep) |-> data[keep[j]].num]

\* np.nanmedian / np.nanmean of samples without NaN
BinCalc(bin_calc, x) ==
    IF bin_calc = "median" THEN [num |-> Median2(x), den |-> 2]
    ELSE [num |-> Sum(x), den |-> Len(x)]

\* the square of err_calc_func(x):
\*   mad(x)/sqrt(len(x)), mad(x) = median|x - median(x)| / c
\*   nanstd(x)/sqrt(len(x)), nanstd(x)^2 = sum (x - mean)^2 / len(x)
ErrCalcSq(err_calc, x) ==
    LET n == Len(x)
    IN  IF err_calc = "mad"
        THEN LET med2 == Median2(x)
                 dev2 == [m \in 1..n |-> Abs(2 * x[m] - med2)]
                 mad4 == Median2(dev2)
             IN  [num |-> mad4 * mad4 * MadCDen * MadCDen,
                  den |-> 16 * MadCNum * MadCNum * n]
        ELSE LET sq == [m \in 1..n |-> x[m] * x[m]]
             IN  [num |-> n * Sum(sq) - Sum(x) * Sum(x), den |-> n * n * n]

\* the error entry without the check for a bad value
ErrEntry_nofloor(try_error) == try_error

\* "if(try_error == 0.): append 1. else: append err_calc_func(cur_data)"
ErrEntry(try_error) == IF try_error.num = 0 THEN One ELSE try_error

bindata(time, data, binsize, bin_calc, err_calc) ==
    LET times_to_try == TimesToTry2(time, binsize)
        Empty == Ok([binned_time |-> <<>>, binned_data |-> <<>>,
                     binned_err |-> <<>>])
        \* loop[i]: the outcome after the first i passes of the for loop
        loop[i \in 0..Len(times_to_try)] ==
            IF i = 0 THEN Empty
            ELSE LET prev == loop[i - 1]
                     c2 == times_to_try[i]
                     ind == WindowInd(c2, time, binsize)
                     cur_data == CurData(data, ind)
                 IN  IF prev.status = "raise" THEN prev
                     ELSE IF Len(ind) = 0 \/ Len(cur_data) = 0 THEN prev
                     ELSE IF bin_calc \notin {"median", "mean"}
                     THEN Raise("UnboundLocalError")   \* bin_calc_func
                     ELSE IF err_calc \notin {"mad", "std"}
                     THEN Raise("UnboundLocalError")   \* err_calc_func
                     ELSE Ok([binned_time |->
                                  Append(prev.value.binned_time, c2),
                              binned_data |->
                                  Append(prev.value.binned_data,
                                         BinCalc(bin_calc, cur_data)),
                              binned_err |->
                                  Append(prev.value.binned_err,
                                         ErrEntry(ErrCalcSq(err_calc,
                                                            cur_data)))])
    IN  loop[Len(times_to_try)]

BinValues == {NaN, Num(0), Num(1), Num(3)}
BinSeries ==
    UNION {[time : [1..n -> 0..MaxTime], data : [1..n -> BinValues]] :
              n \in 1..MaxLenBin}
BinArgs ==
    {[fn |-> "bindata", time |-> s.time, data |-> s.data, binsize |-> b,
      bin_calc |-> bc, err_calc |-> ec] :
        s \in BinSeries, b \in 1..MaxBinsize,
        bc \in {"median", "mean", "mode"}, ec \in {"mad", "std", "var"}}

InitBin == /\ pc = "call"
           /\ args \in BinArgs
           /\ ret = NoRet

CallBin ==
    /\ pc = "call"
    /\ args.fn = "bindata"
    /\ ret' = bindata(args.time, args.data, args.binsize, args.bin_calc,
                      args.err_calc)
    /\ pc' = "done"
    /\ UNCHANGED args

SpecBin == InitBin /\ [][CallBin]_vars
\* the rows a returned outcome holds
Rows == ret.value.binned_time

BinReturned == pc = "done" /\ args.fn = "bindata" /\ ret.status = "ok"

\* the valid samples of the candidate bin centred on c2
BinSamples(c2) ==
    CurData(args.data, WindowInd(c2, args.time, args.binsize))

\* C6: in 'std' and 'mad' modes no returned binned_err entry is zero, and
\* the entry is exactly 1.0 whenever the natural error estimate of the bin's
\* valid samples is exactly zero.
BinErrNeverZero ==
    BinReturned =>
        \A j \in 1..Len(ret.value.binned_err) :
            LET e == ret.value.binned_err[j]
                natural == ErrCalcSq(args.err_calc,
                                     BinSamples(ret.value.binned_time[j]))
            IN  /\ e.num # 0
                /\ e.den # 0
                /\ natural.num = 0 => e = One

\* a returned 'mad' call holds an entry floored to 1.0, its natural estimate
\* being zero, next to an entry left as computed
BinErrFloored ==
    /\ BinReturned
    /\ args.err_calc = "mad"
    /\ \E j \in 1..Len(Rows) :
          /\ ret.value.binned_err[j] = One
          /\ ErrCalcSq("mad", BinSamples(Rows[j])).num = 0
    /\ \E j \in 1..Len(Rows) : ret.value.binned_err[j] # One

\* C7: binned_time is non-decreasing, every entry lies within
\* [min(time), max(time)], and the output is empty when
\* max(time) - min(time) <= binsize.
BinTimeOrderedInRange ==
    BinReturned =>
        /\ \A j \in 1..Len(Rows) :
              /\ Rows[j] >= 2 * SeqMin(args.time)
              /\ Rows[j] <= 2 * SeqMax(args.time)
              /\ j > 1 => Rows[j - 1] <= Rows[j]
        /\ SeqMax(args.time) - SeqMin(args.time) <= args.binsize
               => Len(Rows) = 0

\* a returned call with several rows, and one whose span does not exceed
\* binsize: both cases of C7 are told apart by the span of the time series
BinSeveralRows ==
    /\ BinReturned
    /\ Len(Rows) >= 2
    /\ Rows[1] < Rows[2]
    /\ SeqMax(args.time) - SeqMin(args.time) > args.binsize

\* C8: a returned call holds one row per candidate centre that has at least
\* one sample with |time - c| <= binsize and a non-NaN value, in candidate
\* order, and nothing for the other candidates; the three outputs are
\* equally long.
BinRowsAreValidCandidates ==
    BinReturned =>
        LET HasValid(c2) ==
                \E k \in 1..Len(args.time) :
                    /\ Abs(c2 - 2 * args.time[k]) <= 2 * args.binsize
                    /\ ~IsNaN(args.data[k])
        IN  /\ Rows = SelectSeq(TimesToTry2(args.time, args.binsize),
                                HasValid)
            /\ Len(ret.value.binned_data) = Len(Rows)
            /\ Len(ret.value.binned_err) = Len(Rows)

\* a returned call that emitted a row and skipped a candidate whose selected
\* samples are all NaN
BinSkippedNaNBin ==
    /\ BinReturned
    /\ Len(Rows) >= 1
    /\ \E i \in 1..Len(TimesToTry2(args.time, args.binsize)) :
          LET c2 == TimesToTry2(args.time, args.binsize)[i]
          IN  /\ Len(WindowInd(c2, args.time, args.binsize)) > 0
              /\ Len(BinSamples(c2)) = 0
              /\ \A j \in 1..Len(Rows) : Rows[j] # c2

(***************************************************************************)
(* transit_duration                                                        *)
(***************************************************************************)
\* params.p and params.b are held in hundredths; the returned duration
\* period/pi*arcsin(sqrt(radicand)/sma) is kept as its three ingredients,
\* the radicand in ten-thousandths
transit_duration(params, which_duration) ==
    LET Closed(r) == Ok([period |-> params.per, radicand |-> r,
                         sma |-> params.a])
    IN  IF which_duration = "full"
        THEN Closed((100 + params.p) * (100 + params.p)
                        - params.b * params.b)
        ELSE IF which_duration = "center"
        THEN Closed(100 * 100 - params.b * params.b)
        ELSE IF which_duration = "short"
        THEN Closed((100 - params.p) * (100 - params.p)
                        - params.b * params.b)
        ELSE Raise("ValueError")

Params == [per : {2, 3}, T0 : {0, 1}, p : {5, 10}, b : {0, 30}, a : {5, 8}]

DurationArgs ==
    [fn : {"transit_duration"},
     params : Params,
     which_duration : {"full", "center", "short", "total"}]

InitDuration == /\ pc = "call"
                /\ args \in DurationArgs
                /\ ret = NoRet

CallDuration ==
    /\ pc = "call"
    /\ args.fn = "transit_duration"
    /\ ret' = transit_duration(args.params, args.which_duration)
    /\ pc' = "done"
    /\ UNCHANGED args

(***************************************************************************)
(* fit_eclipse_bottom                                                      *)
(***************************************************************************)
\* data[ind] for a boolean mask ind
Masked(data, ind) ==
    LET keep == SelectSeq([k \in 1..Len(data) |-> k], LAMBDA k : ind[k])
    IN  [j \in 1..Len(keep) |-> data[keep[j]]]

\* np.nanmean / np.nanmedian: NaN entries are dropped; the reduction of
\* nothing is NaN
CalcMethod(zero_eclipse_method, x) ==
    LET valid == SelectSeq(x, LAMBDA f : ~IsNaN(f))
        v == [j \in 1..Len(valid) |-> valid[j].num]
    IN  IF Len(v) = 0 THEN NaN
        ELSE IF zero_eclipse_method = "mean"
        THEN [num |-> Sum(v), den |-> Len(v)]
        ELSE [num |-> Median2(v), den |-> 2]

\* ind is the mask isInTransit(time, TE, period, 0.5*dur, boolOutput=True)
\* returns: one boolean per sample of time
fit_eclipse_bottom(data, ind, params, zero_eclipse_method) ==
    IF zero_eclipse_method \notin {"mean", "median"}
    THEN Raise("ValueError")
    ELSE LET dur == transit_duration(params, "short")
         IN  IF Len(ind) > 0
             THEN Ok(CalcMethod(zero_eclipse_method, Masked(data, ind)))
             ELSE Ok(Num(0))

EclipseValues == {NaN, Num(0), Num(1), Num(2)}
EclipseSeries ==
    UNION {[data : [1..n -> EclipseValues], ind : [1..n -> BOOLEAN]] :
              n \in 0..MaxLenEclipse}
EclipseArgs ==
    {[fn |-> "fit_eclipse_bottom", data |-> s.data, ind |-> s.ind,
      params |-> p, zero_eclipse_method |-> m] :
        s \in EclipseSeries, p \in {q \in Params : q.T0 = 0 /\ q.b = 0},
        m \in {"mean", "median", "mode"}}

InitEclipse == /\ pc = "call"
               /\ args \in EclipseArgs
               /\ ret = NoRet

CallEclipse ==
    /\ pc = "call"
    /\ args.fn = "fit_eclipse_bottom"
    /\ ret' = fit_eclipse_bottom(args.data, args.ind, args.params,
                                 args.zero_eclipse_method)
    /\ pc' = "done"
    /\ UNCHANGED args

SpecEclipse == InitEclipse /\ [][CallEclipse]_vars

\* C3: fit_eclipse_bottom returns 0.0 whenever the in-eclipse mask selects no
\* sample of a non-empty time series, for 'mean' and for 'median'.
EclipseEmptySelectionIsZero ==
    (/\ pc = "done"
     /\ args.fn = "fit_eclipse_bottom"
     /\ args.zero_eclipse_method \in {"mean", "median"}
     /\ Len(args.ind) > 0
     /\ \A k \in 1..Len(args.ind) : ~args.ind[k])
    => ret = Ok(Num(0))

(***************************************************************************)
(* Any one call of the module.                                             *)
(***************************************************************************)
Init == \/ InitFilter
        \/ InitBin
        \/ InitFlag
        \/ InitDuration
        \/ InitEclipse

Next == \/ CallFilter
        \/ CallBin
        \/ CallFlag
        \/ CallDuration
        \/ CallEclipse

Spec == Init /\ [][Next]_vars

\* the call was made with a selector outside its enumerated set
BadSelector ==
    \/ args.fn = "transit_duration"
          /\ args.which_duration \notin {"full", "center", "short"}
    \/ args.fn = "fit_eclipse_bottom"
          /\ args.zero_eclipse_method \notin {"mean", "median"}
    \/ args.fn = "bindata"
          /\ \/ args.bin_calc \notin {"mean", "median"}
             \/ args.err_calc \notin {"std", "mad"}
    \/ args.fn = "median_boxcar_filter" /\ args.endpoints # "reflect"

\* C4: every call with an unrecognized enumerated selector ends in a raised
\* error and returns no result, whatever the data.
BadSelectorRaises ==
    (pc = "done" /\ BadSelector) => ret.status = "raise"
====
